---- MODULE Spec2Model ----
(***************************************************************************)
(* A model of gw_rates_full.py: the Monte-Carlo estimate of the number of  *)
(* binary-neutron-star mergers seen by 2, 3 or 4 gravitational-wave        *)
(* detectors with a detectable kilonova.                                   *)
(*                                                                         *)
(* Numbers.  The program computes in floating point; the model computes    *)
(* in integers over fixed grids:                                           *)
(*   - duty cycles, sun_loss and every uniform [0,1) draw are numerators   *)
(*     over UnitDen (a uniform draw is one of 0 .. UnitDen-1, never        *)
(*     UnitDen itself: the interval is half open);                         *)
(*   - magnitudes are in units of 0.1 mag;                                 *)
(*   - phases and delays are in units of half a day;                       *)
(*   - a coordinate is carried doubled (2x), a distance by the square of   *)
(*     the doubled distance, a range by the doubled range;                 *)
(*   - the rate is a numerator over RateDen.                               *)
(* Floating-point rounding is not modelled.                                *)
(***************************************************************************)
EXTENDS Integers, Sequences, FiniteSets, TLC

VARIABLES
    pc,            \* where main is: start, rejected, setup, trials, fold, done,
                   \* or the exception that ended it
    argv,          \* the command line: every option with its value
    args,          \* the namespace get_options returned (<<>> before)
    run,           \* 1 for the first run of main, 2 for the second
    rng,           \* the generator's position since np.random.seed
    stream,        \* the draws the seeded generator has produced so far
    prev,          \* the outcome of the first run (<<>> before it ended)
    phase,         \* template column ofphase
    temphmag,      \* template column f160w
    trial,         \* the locals of the dotry call that just returned
    ret,           \* the tuple that call returned (<<>> when none is pending)
    values,        \* list(pool.map(dotry, range(n_try)))
    idx,           \* the trial the aggregation loop is at
    n_detect2, n_detect3, n_detect4,
    dist_detect2, mass_detect2, hmag_detect2,
    dist_detect3, mass_detect3, hmag_detect3,
    dist_detect4, mass_detect4, hmag_detect4

aggVars == <<n_detect2, n_detect3, n_detect4,
             dist_detect2, mass_detect2, hmag_detect2,
             dist_detect3, mass_detect3, hmag_detect3,
             dist_detect4, mass_detect4, hmag_detect4>>
tplVars == <<phase, temphmag>>
rngVars == <<rng, stream>>
vars == <<pc, argv, args, run, prev, rngVars, tplVars, trial, ret,
          values, idx, aggVars>>

(***************************************************************************)
(* Grids and bounds                                                        *)
(***************************************************************************)
\* the grid of a uniform [0,1) variate: 0 and 1/2
UnitGrid == {0, 1}
UnitDen == Cardinality(UnitGrid)
\* a rate of r stands for r/RateDen mergers per unit of volume and year
RateDen == 4 * 27
MaxRate == 4
Rates == 1 .. MaxRate

\* ---------------------------------------------------------------- helpers
None == <<>>

Range(s) == {s[i] : i \in DOMAIN s}

Min(S) == CHOOSE m \in S : \A x \in S : m <= x
Max(S) == CHOOSE m \in S : \A x \in S : m >= x
Abs(x) == IF x < 0 THEN -x ELSE x

\* an array computed once and held by value
Array(s) == s \o <<>>

\* np.where(mask)[0]: the indices where mask holds, ascending
Where(mask) == SelectSeq([i \in 1 .. Len(mask) |-> i], LAMBDA i : mask[i])

\* a[index].tolist(): fancy indexing by an index array
Take(a, index) == [j \in 1 .. Len(index) |-> a[index[j]]]

\* np.around: round half to even, of num/den with den > 0
Around(num, den) ==
    LET q == num \div den
        r == num % den
    IN  IF 2 * r < den THEN q
        ELSE IF 2 * r > den THEN q + 1
        ELSE IF q % 2 = 0 THEN q ELSE q + 1

(***************************************************************************)
(* get_options and MinZeroAction                                           *)
(***************************************************************************)
Options == {"box_size", "ntry", "sun_loss",
            "hdutycycle", "ldutycycle", "vdutycycle", "kdutycycle"}

\* the options declared with action=MinZeroAction (the mass keys, declared so
\* too, are not modelled)
MinZeroOptions == Options \ {"sun_loss"}

\* MinZeroAction.__call__: parser.error when values <= 0
MinZeroRejects(v) == v <= 0

\* a command line of the model: a small box, one trial, half of the sky lost
\* to the sun, every detector on half of the time
BaseArgv == [box_size |-> 3, ntry |-> 1, sun_loss |-> 1,
             hdutycycle |-> 1, ldutycycle |-> 1, vdutycycle |-> 1,
             kdutycycle |-> 1]

OptionValues(o) ==
    CASE o = "box_size" -> {-1, 0, 3, 4}
      [] o = "ntry" -> {-1, 0, 1, 2}
      [] o = "sun_loss" -> {0, 1, 2}
      [] OTHER -> {-1, 0, 1, 2, 3}

\* the command lines that differ from BaseArgv in at most one option
ArgvSet ==
    UNION {{[BaseArgv EXCEPT ![o] = v] : v \in OptionValues(o)} : o \in Options}

\* get_options: parse_args ends the program through parser.error as soon as
\* a MinZeroAction option carries a value <= 0; otherwise the namespace holds
\* the values given
get_options(av) ==
    IF \E o \in MinZeroOptions : MinZeroRejects(av[o]) THEN None ELSE av

(***************************************************************************)
(* main: the setup before the trials                                       *)
(***************************************************************************)
\* fractional_duration: the overlap of the LIGO run (2022-01-01 .. 2023-01-01)
\* and the HST cycle (2021-10-01 .. 2022-10-01), 273 days, plus two weeks of
\* engineering time, over a year of 365.25 days: 287/365.25 = 1148/1461
FracNum == 1148
FracDen == 1461

\* cholesky(lvc_cor_matrix), the upper factor, times 15 and rounded
upper_chol == << <<15, 12, 3, 3>>,
                 << 0,  9, 1, 1>>,
                 << 0,  0, 15, 2>>,
                 << 0,  0, 0, 14>> >>

\* kilonova_phottable_40Mpc.txt: the columns ofphase (half days) and f160w
TemplatePhase == <<2, 8, 20>>
TemplateHmag == <<180, 185, 200>>

\* the range providers get_range builds from the detectors' noise curves:
\* the doubled horizon distance of a binary, growing with its masses
ligo_range(m1, m2) == 3 + m1 + m2
virgo_range(m1, m2) == 2 + m1 + m2
kagra_range(m1, m2) == 1 + m1 + m2

\* no seed is set: the generator goes on from where it is
SeedKeepsPosition(position) == position

\* np.random.seed(seed=42): the generator restarts its sequence
Seed(position) == 0

(***************************************************************************)
(* get_correlated_series and get_sim_dutycycles                            *)
(***************************************************************************)
Detectors == 1 .. 4

\* rnd @ upper_chol, rnd being n_events rows of four uniform draws
get_correlated_series(rnd) ==
    Array([i \in 1 .. Len(rnd) |->
        Array([j \in Detectors |->
            rnd[i][1] * upper_chol[1][j] + rnd[i][2] * upper_chol[2][j]
            + rnd[i][3] * upper_chol[3][j] + rnd[i][4] * upper_chol[4][j]])])

\* MinMaxScaler.fit: data_min_ and data_max_ of column j
DataMin(series, j) == Min({series[e][j] : e \in DOMAIN series})
DataMax(series, j) == Max({series[e][j] : e \in DOMAIN series})

\* MinMaxScaler.transform: (x - min) / (max - min) per column, as the fraction
\* <<numerator, denominator>>; a column whose values are all equal is scaled
\* by 1, so every value of it becomes 0
\* the column divided by its maximum, the minimum not taken off
ScaledByMax(x, lo, hi) == <<x, IF hi = 0 THEN 1 ELSE hi>>

Scaled(x, lo, hi) == <<x - lo, IF hi = lo THEN 1 ELSE hi - lo>>

\* h_on[h_series <= h_duty] = 1, for a scaled value and the duty cycle
\* duty/UnitDen
DutyOn(scaled, duty) == scaled[1] * UnitDen <= duty * scaled[2]

\* the four boolean series h_on, l_on, v_on, k_on
get_sim_dutycycles(rnd, h_duty, l_duty, v_duty, k_duty) ==
    LET series == get_correlated_series(rnd)
        duty == <<h_duty, l_duty, v_duty, k_duty>>
        lo == Array([j \in Detectors |-> DataMin(series, j)])
        hi == Array([j \in Detectors |-> DataMax(series, j)])
    IN  Array([j \in Detectors |->
            Array([i \in 1 .. Len(rnd) |->
                DutyOn(Scaled(series[i][j], lo[j], hi[j]), duty[j])])])

(***************************************************************************)
(* dotry: one trial                                                        *)
(***************************************************************************)
\* n_events = np.around(rate*volume*fractional_duration)
NEvents(rate, box_size) ==
    Around(rate * box_size * box_size * box_size * FracNum, RateDen * FracDen)

\* delay[delay > 90] = 0
ResetDelay(d) == IF d > 180 THEN 0 ELSE d

\* hmag = temphmag - min(temphmag); hmag[phase < 2.5] = 0
Hmag(ph, th) ==
    [r \in DOMAIN ph |-> IF ph[r] < 5 THEN 0 ELSE th[r] - Min(Range(th))]

\* a.argmin(): the first index of the least element
ArgMin(a) == Min({r \in DOMAIN a : \A q \in DOMAIN a : a[r] <= a[q]})

\* (phase - x).argmin()
MagIndex(ph, x) == ArgMin([r \in DOMAIN ph |-> ph[r] - x])

\* the calibration constants of dotry, in 0.1 mag
sss17a == -169
minmag == -147
maxmag == sss17a - 20
LimitMag == 220

\* the squared offset (0.05 Mpc)**2 under the root of dist, in model units
OffsetSq == 1

\* Distance(dist).distmod.value: grows with the distance
DistMod(dsq) == 360 + dsq

\* a comparison that takes c detectors or more for c detectors
DetObsAtLeast(k, c) == k >= c

\* n_detectors_on_and_obs == c
DetObs(k, c) == k = c

\* a good mask that leaves the detector count out
GoodMaskNoDet(det_obs, sun_bool, em_bool) ==
    Array([i \in DOMAIN det_obs |-> sun_bool[i] /\ em_bool[i]])

\* two_det_obs & sun_bool & em_bool
GoodMask(det_obs, sun_bool, em_bool) ==
    Array([i \in DOMAIN det_obs |-> det_obs[i] /\ sun_bool[i] /\ em_bool[i]])

B2N(b) == IF b THEN 1 ELSE 0

\* what one call of dotry draws: the rate, then per event the two masses, the
\* delay, the extinction variate, the magnitude variate, the position, the
\* four duty-cycle variates and the sun variate
CoordGrid(box_size) == {-box_size, 0}
ZeroRnd == [j \in Detectors |-> 0]

\* the draws of an event with every detector and position variate on its
\* grid, one mass, one delay and no extinction
EventDraws(box_size) ==
    [m1 : {1}, m2 : {1}, delay : {8}, e : {0},
     u : UnitGrid, x : CoordGrid(box_size), y : CoordGrid(box_size),
     z : CoordGrid(box_size), rnd : [Detectors -> UnitGrid], sun : UnitGrid]

\* the draws of an event with the masses, the delay (4 and 100 days) and
\* the extinction on their grids, equal duty-cycle variates and a position
\* on the x axis
SeededEventDraws(box_size) ==
    [m1 : {1, 2}, m2 : {1}, delay : {8, 200}, e : {0, 1},
     u : UnitGrid, x : CoordGrid(box_size), y : {0},
     z : {0}, rnd : {ZeroRnd}, sun : UnitGrid]

\* the locals of dotry on the draws (rate, ev), ret being what it returns
dotry(a, ph, th, rate, ev) ==
    LET n_events == Len(ev)
        E == 1 .. n_events
        mass1 == Array([i \in E |-> ev[i].m1])
        mass2 == Array([i \in E |-> ev[i].m2])
        bns_range_ligo == Array([i \in E |-> ligo_range(mass1[i], mass2[i])])
        bns_range_virgo == Array([i \in E |-> virgo_range(mass1[i], mass2[i])])
        bns_range_kagra == Array([i \in E |-> kagra_range(mass1[i], mass2[i])])
        tot_mass == Array([i \in E |-> mass1[i] + mass2[i]])
        delay == Array([i \in E |-> ResetDelay(ev[i].delay)])
        \* av = exponential*0.4 in 0.01 mag (the variate in units of 1.525);
        \* ah = av/6.1 in 0.1 mag
        av == Array([i \in E |-> 61 * ev[i].e])
        ah == Array([i \in E |-> av[i] \div 61])
        hmag == Array(Hmag(ph, th))
        magindex == Array([i \in E |-> MagIndex(ph, delay[i])])
        default_value == <<0>>
        absm == Array([i \in E |->
                   (ev[i].u * Abs(maxmag - minmag)) \div UnitDen + sss17a
                   + hmag[magindex[i]] + ah[i]])
        dist == Array([i \in E |->
                   ev[i].x * ev[i].x + ev[i].y * ev[i].y + ev[i].z * ev[i].z
                   + OffsetSq])
        \* the series get_sim_dutycycles scales, from the same draws
        series == get_correlated_series(Array([i \in E |-> ev[i].rnd]))
        on == get_sim_dutycycles(Array([i \in E |-> ev[i].rnd]), a.hdutycycle,
                                 a.ldutycycle, a.vdutycycle, a.kdutycycle)
        dist_ligo_bool == Array([i \in E |-> dist[i] <= bns_range_ligo[i] * bns_range_ligo[i]])
        dist_virgo_bool == Array([i \in E |-> dist[i] <= bns_range_virgo[i] * bns_range_virgo[i]])
        dist_kagra_bool == Array([i \in E |-> dist[i] <= bns_range_kagra[i] * bns_range_kagra[i]])
        h_on_and_observed == Array([i \in E |-> on[1][i] /\ dist_ligo_bool[i]])
        l_on_and_observed == Array([i \in E |-> on[2][i] /\ dist_ligo_bool[i]])
        v_on_and_observed == Array([i \in E |-> on[3][i] /\ dist_virgo_bool[i]])
        k_on_and_observed == Array([i \in E |-> on[4][i] /\ dist_kagra_bool[i]])
        n_detectors_on_and_obs ==
            Array([i \in E |-> B2N(h_on_and_observed[i]) + B2N(l_on_and_observed[i])
                         + B2N(v_on_and_observed[i]) + B2N(k_on_and_observed[i])])
        two_det_obs == Array([i \in E |-> DetObs(n_detectors_on_and_obs[i], 2)])
        three_det_obs == Array([i \in E |-> DetObs(n_detectors_on_and_obs[i], 3)])
        four_det_obs == Array([i \in E |-> DetObs(n_detectors_on_and_obs[i], 4)])
        sun_bool == Array([i \in E |-> ev[i].sun >= a.sun_loss])
        obsmag == Array([i \in E |-> absm[i] + DistMod(dist[i])])
        em_bool == Array([i \in E |-> obsmag[i] < LimitMag])
        n2_gw_only == Where(two_det_obs)
        n2_good == Where(GoodMask(two_det_obs, sun_bool, em_bool))
        n3_gw_only == Where(three_det_obs)
        n3_good == Where(GoodMask(three_det_obs, sun_bool, em_bool))
        n4_gw_only == Where(four_det_obs)
        n4_good == Where(GoodMask(four_det_obs, sun_bool, em_bool))
        n2 == Len(n2_good)
        n3 == Len(n3_good)
        n4 == Len(n4_good)
        asserts == /\ Len(n2_gw_only) >= n2
                   /\ Len(n3_gw_only) >= n3
                   /\ Len(n4_gw_only) >= n4
    IN  [n_events |-> n_events, rate |-> rate,
         mass1 |-> mass1, mass2 |-> mass2,
         delay |-> delay, magindex |-> magindex,
         dist |-> IF n_events = 0 THEN <<>> ELSE dist,
         tot_mass |-> tot_mass,
         obsmag |-> IF n_events = 0 THEN <<>> ELSE obsmag,
         series |-> series,
         on |-> IF n_events = 0 THEN <<>> ELSE on,
         in_range |-> <<dist_ligo_bool, dist_ligo_bool, dist_virgo_bool,
                        dist_kagra_bool>>,
         n_detectors_on_and_obs |->
             IF n_events = 0 THEN <<>> ELSE n_detectors_on_and_obs,
         sun_bool |-> sun_bool, em_bool |-> IF n_events = 0 THEN <<>> ELSE em_bool,
         gw_only |-> IF n_events = 0 THEN <<<<>>, <<>>, <<>>>>
                     ELSE <<n2_gw_only, n3_gw_only, n4_gw_only>>,
         good |-> IF n_events = 0 THEN <<<<>>, <<>>, <<>>>>
                  ELSE <<n2_good, n3_good, n4_good>>,
         asserted |-> n_events > 0 /\ ~asserts,
         ret |-> IF n_events = 0
                 THEN <<default_value, default_value, default_value,
                        default_value, default_value, default_value, 0, 0>>
                 ELSE IF ~asserts THEN <<"AssertionError">>
                 ELSE <<Take(dist, n2_good), Take(tot_mass, n2_good),
                        Take(dist, n3_good), Take(tot_mass, n3_good),
                        Take(dist, n4_good), Take(tot_mass, n4_good),
                        Take(obsmag, n2_good), Take(obsmag, n3_good),
                        Take(obsmag, n3_good), n2, n3, n4>>]

(***************************************************************************)
(* The program as a state machine                                          *)
(***************************************************************************)
\* before main is called with one of the command lines of S
InitFrom(S) ==
    /\ pc = "start"
    /\ argv \in S
    /\ args = None
    /\ run = 1
    /\ rng = 0
    /\ stream = <<>>
    /\ prev = None
    /\ phase = None
    /\ temphmag = None
    /\ trial = None
    /\ ret = None
    /\ values = <<>>
    /\ idx = 0
    /\ n_detect2 = <<>> /\ n_detect3 = <<>> /\ n_detect4 = <<>>
    /\ dist_detect2 = <<>> /\ mass_detect2 = <<>> /\ hmag_detect2 = <<>>
    /\ dist_detect3 = <<>> /\ mass_detect3 = <<>> /\ hmag_detect3 = <<>>
    /\ dist_detect4 = <<>> /\ mass_detect4 = <<>> /\ hmag_detect4 = <<>>

Init == InitFrom(ArgvSet)

\* main, line 122: args = get_options(argv); parser.error ends the program
GetOptions ==
    /\ pc = "start"
    /\ args' = get_options(argv)
    /\ pc' = IF args' = None THEN "rejected" ELSE "setup"
    /\ UNCHANGED <<argv, run, prev, rngVars, tplVars, trial, ret, values, idx,
                   aggVars>>

\* main, lines 123-179: the seed, the volume, the Cholesky factor, the
\* template table, the range providers
Setup ==
    /\ pc = "setup"
    /\ rng' = Seed(rng)
    /\ phase' = TemplatePhase
    /\ temphmag' = TemplateHmag
    /\ pc' = "trials"
    /\ UNCHANGED <<argv, args, run, prev, stream, trial, ret, values, idx,
                   aggVars>>

\* pool.map is about to call dotry for the next trial
CanTry ==
    /\ pc = "trials"
    /\ ret = None
    /\ Len(values) < args.ntry

\* one call of dotry on the draws (rate, ev); a failed assert ends the program
TrialStep(rate, ev) ==
    \E t \in {dotry(args, phase, temphmag, rate, ev)} :
        /\ trial' = t
        /\ ret' = t.ret
        /\ pc' = IF t.asserted THEN "AssertionError" ELSE pc
        /\ rng' = rng + 1
        /\ UNCHANGED <<argv, args, run, prev, tplVars, values, idx, aggVars>>

\* dotry, lines 181-285, on fresh draws
DoTry ==
    /\ CanTry
    /\ \E rate \in Rates :
          \E ev \in [1 .. NEvents(rate, args.box_size)
                          -> EventDraws(args.box_size)] :
              TrialStep(rate, ev)
    /\ UNCHANGED stream

\* list(pool.map(...)), line 288: the result joins values, the call's locals
\* are gone
Collect ==
    /\ pc = "trials"
    /\ ret # None
    /\ values' = Append(values, ret)
    /\ ret' = None
    /\ trial' = None
    /\ UNCHANGED <<pc, argv, args, run, prev, rngVars, tplVars, idx, aggVars>>

\* lines 289-301: every trial has run, the twelve lists start empty
StartFold ==
    /\ pc = "trials"
    /\ ret = None
    /\ Len(values) = args.ntry
    /\ pc' = "fold"
    /\ idx' = 1
    /\ n_detect2' = <<>> /\ n_detect3' = <<>> /\ n_detect4' = <<>>
    /\ dist_detect2' = <<>> /\ mass_detect2' = <<>> /\ hmag_detect2' = <<>>
    /\ dist_detect3' = <<>> /\ mass_detect3' = <<>> /\ hmag_detect3' = <<>>
    /\ dist_detect4' = <<>> /\ mass_detect4' = <<>> /\ hmag_detect4' = <<>>
    /\ UNCHANGED <<argv, args, run, prev, rngVars, tplVars, trial, ret, values>>

\* the guards of the loop body, lines 303-320
CountGuard(n2, n3, n4, c) ==
    CASE c = 2 -> n2 >= 0
      [] c = 3 -> n3 >= 0
      [] c = 4 -> n4 >= 0
PoolGuard(n2, n3, n4, c) ==
    CASE c = 2 -> n3 > 0
      [] c = 3 -> n3 > 0
      [] c = 4 -> n4 > 0

\* lines 302-320: one pass of the loop; unpacking a tuple that does not hold
\* twelve values raises ValueError
FoldStep ==
    /\ pc = "fold"
    /\ idx <= Len(values)
    /\ LET v == values[idx]
       IN  IF Len(v) # 12
           THEN /\ pc' = "ValueError"
                /\ UNCHANGED <<idx, aggVars>>
           ELSE LET d2 == v[1]  m2 == v[2]  d3 == v[3]  m3 == v[4]
                    d4 == v[5]  m4 == v[6]  h2 == v[7]  h3 == v[8]
                    h4 == v[9]  n2 == v[10] n3 == v[11] n4 == v[12]
                    cnt(c) == CountGuard(n2, n3, n4, c)
                    pool(c) == cnt(c) /\ PoolGuard(n2, n3, n4, c)
                IN  /\ pc' = pc
                    /\ idx' = idx + 1
                    /\ n_detect2' = IF cnt(2) THEN Append(n_detect2, n2) ELSE n_detect2
                    /\ dist_detect2' = IF pool(2) THEN dist_detect2 \o d2 ELSE dist_detect2
                    /\ mass_detect2' = IF pool(2) THEN mass_detect2 \o m2 ELSE mass_detect2
                    /\ hmag_detect2' = IF pool(2) THEN hmag_detect2 \o h2 ELSE hmag_detect2
                    /\ n_detect3' = IF cnt(3) THEN Append(n_detect3, n3) ELSE n_detect3
                    /\ dist_detect3' = IF pool(3) THEN dist_detect3 \o d3 ELSE dist_detect3
                    /\ mass_detect3' = IF pool(3) THEN mass_detect3 \o m3 ELSE mass_detect3
                    /\ hmag_detect3' = IF pool(3) THEN hmag_detect3 \o h3 ELSE hmag_detect3
                    /\ n_detect4' = IF cnt(4) THEN Append(n_detect4, n4) ELSE n_detect4
                    /\ dist_detect4' = IF pool(4) THEN dist_detect4 \o d4 ELSE dist_detect4
                    /\ mass_detect4' = IF pool(4) THEN mass_detect4 \o m4 ELSE mass_detect4
                    /\ hmag_detect4' = IF pool(4) THEN hmag_detect4 \o h4 ELSE hmag_detect4
    /\ UNCHANGED <<argv, args, run, prev, rngVars, tplVars, trial, ret, values>>

\* lines 321-323: the loop is over, the count series become arrays
Finish ==
    /\ pc = "fold"
    /\ idx > Len(values)
    /\ pc' = "done"
    /\ UNCHANGED <<argv, args, run, prev, rngVars, tplVars, trial, ret, values,
                   idx, aggVars>>

Next ==
    \/ GetOptions
    \/ Setup
    \/ DoTry
    \/ Collect
    \/ StartFold
    \/ FoldStep
    \/ Finish

Spec == Init /\ [][Next]_vars

(***************************************************************************)
(* Two runs of main on the same seed.  The sequence np.random.seed(42)     *)
(* starts is fixed but unknown: stream holds the part of it drawn so far,  *)
(* rng the generator's position in it.                                     *)
(***************************************************************************)
\* the command lines of ArgvSet that run with the base duty cycles and
\* sun loss: one trial or two, the small box or the larger one
SeededArgvSet ==
    {a \in ArgvSet : /\ get_options(a) # None
                     /\ a.sun_loss = BaseArgv.sun_loss
                     /\ \A o \in Options \ {"box_size", "ntry", "sun_loss"} :
                           a[o] = BaseArgv[o]}

InitSeeded == InitFrom(SeededArgvSet)

\* dotry, lines 181-285, on the draws the generator holds at its position
DoTrySeeded ==
    /\ CanTry
    /\ IF rng < Len(stream)
       THEN /\ TrialStep(stream[rng + 1].rate, stream[rng + 1].ev)
            /\ UNCHANGED stream
       ELSE \E rate \in Rates :
              \E ev \in [1 .. NEvents(rate, args.box_size)
                            -> SeededEventDraws(args.box_size)] :
                /\ TrialStep(rate, ev)
                /\ stream' = Append(stream, [rate |-> rate, ev |-> ev])

\* what a run of main leaves: how it ended, the trial results, the lists
Outcome ==
    [pc |-> pc, values |-> values,
     n_detect2 |-> n_detect2, n_detect3 |-> n_detect3, n_detect4 |-> n_detect4,
     dist_detect2 |-> dist_detect2, mass_detect2 |-> mass_detect2,
     hmag_detect2 |-> hmag_detect2,
     dist_detect3 |-> dist_detect3, mass_detect3 |-> mass_detect3,
     hmag_detect3 |-> hmag_detect3,
     dist_detect4 |-> dist_detect4, mass_detect4 |-> mass_detect4,
     hmag_detect4 |-> hmag_detect4]

Ended == pc \in {"done", "ValueError", "AssertionError"}

\* main is called again with the same command line, in a process whose
\* generator is wherever it is
Rerun ==
    /\ Ended
    /\ run = 1
    /\ prev' = Outcome
    /\ run' = 2
    /\ pc' = "start"
    /\ args' = None
    /\ phase' = None
    /\ temphmag' = None
    /\ trial' = None
    /\ ret' = None
    /\ values' = <<>>
    /\ idx' = 0
    /\ n_detect2' = <<>> /\ n_detect3' = <<>> /\ n_detect4' = <<>>
    /\ dist_detect2' = <<>> /\ mass_detect2' = <<>> /\ hmag_detect2' = <<>>
    /\ dist_detect3' = <<>> /\ mass_detect3' = <<>> /\ hmag_detect3' = <<>>
    /\ dist_detect4' = <<>> /\ mass_detect4' = <<>> /\ hmag_detect4' = <<>>
    /\ UNCHANGED <<argv, rngVars>>

NextSeeded ==
    \/ GetOptions
    \/ Setup
    \/ DoTrySeeded
    \/ Collect
    \/ StartFold
    \/ FoldStep
    \/ Finish
    \/ Rerun

SpecSeeded == InitSeeded /\ [][NextSeeded]_vars

(***************************************************************************)
(* Properties                                                              *)
(***************************************************************************)
Categories == {2, 3, 4}

\* where the tuple dotry returns holds the lists and the count of category c,
\* as the loop of main unpacks it: d2, m2, d3, m3, d4, m4, h2, h3, h4, n2, n3, n4
DistField(c) == 2 * c - 3
MassField(c) == 2 * c - 2
MagField(c) == c + 5
CountField(c) == c + 8

Returned == trial # None
EventsOf(t) == 1 .. t.n_events

\* the good events of category c of the trial that just returned: exactly c
\* detectors on and within range, visible past the sun, bright enough
GoodEvents(c) ==
    SelectSeq([i \in EventsOf(trial) |-> i],
              LAMBDA i : /\ trial.n_detectors_on_and_obs[i] = c
                         /\ trial.sun_bool[i]
                         /\ trial.em_bool[i])

\* C1: a trial that draws no event returns a tuple of the twelve fields the
\* aggregation unpacks, with n2 = n3 = n4 = 0 and nine empty sample lists.
C1_ZeroEventResult ==
    (Returned /\ trial.n_events = 0) =>
        /\ Len(ret) = 12
        /\ \A c \in Categories :
              /\ ret[CountField(c)] = 0
              /\ Len(ret[DistField(c)]) = 0
              /\ Len(ret[MassField(c)]) = 0
              /\ Len(ret[MagField(c)]) = 0

\* C2: whatever trials draw no event, the aggregation raises nothing, and
\* once it is over each count series holds one entry per trial.
C2_AggregationCompletes ==
    /\ pc # "ValueError"
    /\ pc = "done" =>
          /\ Len(n_detect2) = args.ntry
          /\ Len(n_detect3) = args.ntry
          /\ Len(n_detect4) = args.ntry

\* C3: for a trial with events and for every category c, the distance, mass
\* and magnitude lists returned for c are the distances, masses and
\* magnitudes of the good events of c, in their order, and the count is
\* their number.
C3_ListsOfGoodEvents ==
    (Returned /\ trial.n_events > 0 /\ ~trial.asserted) =>
        \A c \in Categories :
            /\ ret[DistField(c)] = Take(trial.dist, GoodEvents(c))
            /\ ret[MassField(c)] = Take(trial.tot_mass, GoodEvents(c))
            /\ ret[MagField(c)] = Take(trial.obsmag, GoodEvents(c))
            /\ ret[CountField(c)] = Len(GoodEvents(c))

\* the pooled lists of category c
Pooled(c) ==
    CASE c = 2 -> <<dist_detect2, mass_detect2, hmag_detect2>>
      [] c = 3 -> <<dist_detect3, mass_detect3, hmag_detect3>>
      [] c = 4 -> <<dist_detect4, mass_detect4, hmag_detect4>>

\* the pooled lists of category c after the samples of the trial v joined them
Joined(c, v) ==
    <<Pooled(c)[1] \o v[DistField(c)], Pooled(c)[2] \o v[MassField(c)],
      Pooled(c)[3] \o v[MagField(c)]>>

\* C4: a pass of the aggregation loop appends a trial's samples of category
\* c to the pooled lists of c if and only if the trial's own count n_c is
\* positive.
C4_PoolIffOwnCount ==
    [][(pc = "fold" /\ idx' = idx + 1) =>
          \A c \in Categories :
              Pooled(c)' = IF values[idx][CountField(c)] > 0
                           THEN Joined(c, values[idx])
                           ELSE Pooled(c)]_vars

\* C5: in every trial and for every category the good events are no more
\* than the events the category's detectors saw: no sanity assertion of
\* dotry fails.
C5_GoodWithinRaw ==
    /\ pc # "AssertionError"
    /\ Returned =>
          /\ ~trial.asserted
          /\ \A c \in Categories :
                Len(trial.good[c - 1]) <= Len(trial.gw_only[c - 1])

\* a trial where a category holds a good event and one that is not good
C5_Witness ==
    /\ Returned
    /\ \E c \in Categories :
          /\ Len(trial.good[c - 1]) > 0
          /\ Len(trial.good[c - 1]) < Len(trial.gw_only[c - 1])

\* the doubled range detector j has for the masses of event i: Hanford and
\* Livingston share the LIGO range
RangeOf(j, m1, m2) ==
    CASE j \in {1, 2} -> ligo_range(m1, m2)
      [] j = 3 -> virgo_range(m1, m2)
      [] j = 4 -> kagra_range(m1, m2)

Seen(j, i) ==
    /\ trial.on[j][i]
    /\ trial.dist[i] <= RangeOf(j, trial.mass1[i], trial.mass2[i])
                        * RangeOf(j, trial.mass1[i], trial.mass2[i])

InClass(c, i) == i \in Range(trial.gw_only[c - 1])

\* C6: for every event k is the number of detectors that are on and within
\* their range; the event is in the raw set of category c exactly when
\* k = c, so it is in one class of none, 2, 3, 4, and the sizes of the raw
\* sets and the number of events with k < 2 add up to n_events.
C6_OneClassPerEvent ==
    (Returned /\ trial.n_events > 0) =>
        /\ \A i \in EventsOf(trial) :
              /\ trial.n_detectors_on_and_obs[i]
                    = Cardinality({j \in Detectors : Seen(j, i)})
              /\ \A c \in Categories :
                    InClass(c, i) <=> trial.n_detectors_on_and_obs[i] = c
              /\ Cardinality({c \in Categories : InClass(c, i)})
                    = IF trial.n_detectors_on_and_obs[i] < 2 THEN 0 ELSE 1
        /\ Len(trial.gw_only[1]) + Len(trial.gw_only[2]) + Len(trial.gw_only[3])
              + Cardinality({i \in EventsOf(trial) :
                                trial.n_detectors_on_and_obs[i] < 2})
              = trial.n_events

\* a trial with an event one detector saw and an event three detectors saw
C6_Witness ==
    /\ Returned
    /\ trial.n_events = 2
    /\ \E i \in EventsOf(trial) : trial.n_detectors_on_and_obs[i] = 1
    /\ \E i \in EventsOf(trial) : trial.n_detectors_on_and_obs[i] = 3

\* C7: with sun_loss = 1.0 every trial returns n2 = n3 = n4 = 0.
C7_SunLossOne ==
    (Returned /\ args.sun_loss = UnitDen) =>
        /\ Len(ret) = 12
        /\ \A c \in Categories : ret[CountField(c)] = 0

\* C8: the template row chosen for an event is a row whose phase is nearest
\* to the event's delay.
C8_NearestPhase ==
    Returned =>
        \A i \in EventsOf(trial) : \A r \in DOMAIN phase :
            Abs(phase[trial.magindex[i]] - trial.delay[i])
                <= Abs(phase[r] - trial.delay[i])

DutyOptions == {"hdutycycle", "ldutycycle", "vdutycycle", "kdutycycle"}

ValidConfiguration(a) ==
    /\ a.box_size > 0
    /\ a.ntry > 0
    /\ \A o \in DutyOptions : a[o] > 0 /\ a[o] <= UnitDen

\* C9: dotry runs only with box_size > 0, ntry > 0 and duty cycles in (0, 1];
\* a command line that breaks one of these is rejected by get_options,
\* before the template is loaded and before any trial.
C9_ValidConfiguration ==
    /\ Returned => ValidConfiguration(args)
    /\ (pc # "start" /\ ~ValidConfiguration(argv)) =>
          (pc = "rejected" /\ phase = None /\ ~Returned /\ values = <<>>)

\* C10: the second run of main on the same command line and the same seed
\* gets from each trial what the first run got from it, and ends as the
\* first did, with the same count series and pooled lists.
C10_SameSeedSameResult ==
    run = 2 =>
        /\ Len(values) <= Len(prev.values)
        /\ \A i \in DOMAIN values :
              Len(values[i]) = Len(prev.values[i]) /\ values[i] = prev.values[i]
        /\ Ended => (pc = prev.pc /\ Outcome = prev)

\* a second run that ended with events pooled
C10_Witness ==
    /\ run = 2
    /\ pc = "done"
    /\ Len(dist_detect3) + Len(dist_detect4) > 0
    /\ Len(values) = 2

\* the duty cycle option of detector j, in the order H, L, V, K
DutyOption == <<"hdutycycle", "ldutycycle", "vdutycycle", "kdutycycle">>

\* event i holds the minimum (maximum) of column j of the trial's series
HoldsMin(j, i) == \A e \in EventsOf(trial) : trial.series[i][j] <= trial.series[e][j]
HoldsMax(j, i) == \A e \in EventsOf(trial) : trial.series[i][j] >= trial.series[e][j]

\* in a trial with events every detector is on for the events that hold its
\* column's minimum, and in a trial of one event all four detectors are on
MinIsOn ==
    /\ \A j \in Detectors :
          /\ \E i \in EventsOf(trial) : HoldsMin(j, i)
          /\ \A i \in EventsOf(trial) : HoldsMin(j, i) => trial.on[j][i]
    /\ trial.n_events = 1 => \A j \in Detectors : trial.on[j][1]

\* C11 as stated: in every trial with n_events >= 1 each detector is on for
\* the event holding its column's minimum, in a trial of one event all four
\* detectors are on whatever the duty cycles, and an event holding a
\* column's maximum is on only if that duty cycle is >= 1.
C11_MinOnMaxOff ==
    (Returned /\ trial.n_events >= 1) =>
        /\ MinIsOn
        /\ \A j \in Detectors : \A i \in EventsOf(trial) :
              (HoldsMax(j, i) /\ trial.on[j][i]) => args[DutyOption[j]] >= UnitDen

\* C11 amended: in every trial with n_events >= 1 each detector is on for
\* the event holding its column's minimum, in a trial of one event all four
\* detectors are on whatever the duty cycles, and an event holding a
\* column's maximum that is above the column's minimum is on only if that
\* duty cycle is >= 1.
C11_MinOnStrictMaxOff ==
    (Returned /\ trial.n_events >= 1) =>
        /\ MinIsOn
        /\ \A j \in Detectors : \A i \in EventsOf(trial) :
              (HoldsMax(j, i) /\ ~HoldsMin(j, i) /\ trial.on[j][i])
                  => args[DutyOption[j]] >= UnitDen

\* a trial of two events that differ in a column whose duty cycle is below
\* 1: the detector is on for the lower one and off for the higher one
C11_Witness ==
    /\ Returned
    /\ trial.n_events = 2
    /\ \E j \in Detectors : \E i, k \in EventsOf(trial) :
          /\ trial.series[i][j] < trial.series[k][j]
          /\ args[DutyOption[j]] < UnitDen
          /\ trial.on[j][i]
          /\ ~trial.on[j][k]

====
